---- MODULE Spec2Model ----
(***************************************************************************)
(* PowerGenome: powergenome/extract_pudl_data.py (main) and                *)
(* powergenome/util.py (reverse_dict_of_lists, map_agg_region_names).      *)
(*                                                                         *)
(* Python values are modelled as follows.                                  *)
(*   str        a sequence of code points (so that sorted() can compare)   *)
(*   list       a sequence                                                 *)
(*   dict       a sequence of <<key, value>> pairs in insertion order,     *)
(*              keys pairwise different                                    *)
(*   DataFrame  for util.py a dict column label -> list of values;         *)
(*              for the load table a record of column labels and rows      *)
(*   float      an integer number of tenths (127 is 12.7)                  *)
(*   a name not bound yet: the empty sequence; bound to v: <<v>>           *)
(***************************************************************************)
EXTENDS Integers, Sequences, FiniteSets, TLC

\* ---------------------------------------------------------------- bounds
MaxRegions == 3
MaxLoadCols == 2
MaxLoadRows == 1
MaxMembers == 2
MaxDfRows == 2

\* ---------------------------------------------------------------- strings
\* the strings the inputs are drawn from
R_a == <<97>>
R_ab == <<97, 98>>
R_b == <<98>>
M_p == <<112>>
M_q == <<113>>
M_z == <<122>>
A_X == <<88>>
A_Y == <<89>>

RegionNames == {R_a, R_ab, R_b}
AggNames == {A_X, A_Y}
MemberNames == {M_p, M_q, M_z}

\* float('nan') as pandas puts it where a mapping has no entry
NaN == <<-1>>

Min(m, n) == IF m < n THEN m ELSE n

\* Python's str.__lt__: the first differing code point decides, a proper
\* prefix is smaller
StrLess(s, t) ==
    \E i \in 1..(Min(Len(s), Len(t)) + 1) :
        /\ \A j \in 1..(i - 1) : s[j] = t[j]
        /\ \/ i <= Len(s) /\ i <= Len(t) /\ s[i] < t[i]
           \/ i = Len(s) + 1 /\ i <= Len(t)

StrLeq(s, t) == s = t \/ StrLess(s, t)

\* f"{n}" for a non-negative int: its decimal digits, most significant first
RECURSIVE ToDecimal(_)
ToDecimal(n) ==
    IF n < 10 THEN <<48 + n>> ELSE ToDecimal(n \div 10) \o <<48 + (n % 10)>>

Load_MW_z == <<76, 111, 97, 100, 95, 77, 87, 95, 122>>

\* ---------------------------------------------------------------- lists
Range(s) == {s[i] : i \in 1..Len(s)}

SeqsUpTo(S, n) == UNION {[1..k -> S] : k \in 0..n}

NoDuplicates(s) == \A i, j \in 1..Len(s) : i # j => s[i] # s[j]

\* list.insert keeping the order of sorted(): x goes behind every element
\* that is not greater (the sort is stable)
RECURSIVE Insert(_, _)
Insert(x, s) ==
    IF s = <<>> THEN <<x>>
    ELSE IF StrLess(x, s[1]) THEN <<x>> \o s
    ELSE <<s[1]>> \o Insert(x, Tail(s))

RECURSIVE InsertionSort(_)
InsertionSort(s) ==
    IF s = <<>> THEN <<>>
    ELSE Insert(s[Len(s)], InsertionSort(SubSeq(s, 1, Len(s) - 1)))

Unsorted(s) == s

\* the builtin sorted() on a list of str
sorted(s) == InsertionSort(s)

\* ---------------------------------------------------------------- dicts
Keys(m) == [i \in 1..Len(m) |-> m[i][1]]

KeySet(m) == {m[i][1] : i \in 1..Len(m)}

HasKey(m, k) == \E i \in 1..Len(m) : m[i][1] = k

\* m[k] for a key the dict has
DictGet(m, k) == m[CHOOSE i \in 1..Len(m) : m[i][1] = k][2]

\* m[k] = v: an existing key keeps its place and takes the new value
DictSet(m, k, v) ==
    IF HasKey(m, k)
    THEN [i \in 1..Len(m) |-> IF m[i][1] = k THEN <<k, v>> ELSE m[i]]
    ELSE Append(m, <<k, v>>)

\* pandas Index.map / Series.map with a dict: no entry gives NaN
MapValue(m, k) == IF HasKey(m, k) THEN DictGet(m, k) ELSE NaN

\* {key(x): value(x) for x in items}, items given as the list of pairs
RECURSIVE DictOf(_)
DictOf(pairs) ==
    IF pairs = <<>> THEN <<>>
    ELSE LET n == Len(pairs)
         IN DictSet(DictOf(SubSeq(pairs, 1, n - 1)), pairs[n][1], pairs[n][2])

\* ------------------------------------------------- extract_pudl_data.main
VARIABLES
    pc,             \* the statement of main() that runs next
    args_all_units, \* args.all_units
    settings_file,  \* what the YAML settings file holds
    warehouse,      \* what the PUDL database holds
    settings,       \* the dict load_settings returned
    warnings,       \* number of WARNING records the logger received
    zone_num_map,   \* unbound, or the dict zone -> number string
    gen_clusters,   \* unbound, or the cluster table
    load,           \* unbound, or the load table
    transmission,   \* unbound, or the transmission table
    received,       \* per builder: unbound, or the settings it was passed
    written,        \* per CSV file: the tables written to it, in order
    failed_at,      \* "" or the statement that raised
    \* ---- util.py, called on its own
    call,           \* the function under call and its arguments
    df,             \* the DataFrame object passed to map_agg_region_names
    ret             \* unbound, or the value returned

vars == <<pc, args_all_units, settings_file, warehouse, settings, warnings,
          zone_num_map, gen_clusters, load, transmission, received, written,
          failed_at, call, df, ret>>

mainVars == <<pc, args_all_units, settings_file, warehouse, settings, warnings,
              zone_num_map, gen_clusters, load, transmission, received,
              written, failed_at>>

utilVars == <<call, df, ret>>

\* all_valid_regions = ipm_regions.tolist() + list(settings["region_aggregations"])
NoAggregates(ipm_regions, s) == ipm_regions

all_valid_regions(ipm_regions, s) == ipm_regions \o Keys(s.region_aggregations)

\* good_regions = [region in all_valid_regions for region in settings["model_regions"]]
good_regions(valid, s) ==
    [i \in 1..Len(s.model_regions) |-> s.model_regions[i] \in Range(valid)]

\* the builtin all()
all(flags) == \A i \in 1..Len(flags) : flags[i]

WarningPerRegion(flags) == Cardinality({i \in 1..Len(flags) : ~flags[i]})

\* the calls of logger.warning the validator makes
ValidatorWarnings(flags) == IF ~all(flags) THEN 1 ELSE 0

OnlyModelRegions(s) ==
    [model_regions |-> sorted(s.model_regions), region_aggregations |-> <<>>]

\* settings["model_regions"] = sorted(settings["model_regions"])
SortZones(s) == [s EXCEPT !.model_regions = sorted(s.model_regions)]

\* {zone: f"{number + 1}" for zone, number in zip(zones, range(len(zones)))}
ZoneNumMap(zones) ==
    DictOf([i \in 1..Len(zones) |-> <<zones[i], ToDecimal((i - 1) + 1)>>])

\* the region level of the cluster table's index: one cluster per model region
ClusterRegions(s) == s.model_regions

\* gen_clusters["zone"] = gen_clusters.index.get_level_values("region").map(zone_num_map)
WithZone(regions, zmap) ==
    [i \in 1..Len(regions) |->
        [region |-> regions[i], zone |-> MapValue(zmap, regions[i])]]

\* "Load_MW_z" + load.columns.map(zone_num_map); a label without a zone is NaN
LoadColumns(columns, zmap) ==
    [i \in 1..Len(columns) |->
        IF HasKey(zmap, columns[i]) THEN Load_MW_z \o DictGet(zmap, columns[i])
        ELSE NaN]

\* the links between the model regions
TransmissionLinks(s) ==
    {<<r1, r2>> \in Range(s.model_regions) \X Range(s.model_regions) :
        StrLess(r1, r2)}

\* round to the nearest integer instead
RoundTenths(v) == (v + 5) \div 10

\* float -> int of astype(int): the fraction is dropped, towards zero
TruncTenths(v) == IF v >= 0 THEN v \div 10 ELSE -((-v) \div 10)

\* load.astype(int)
astype_int(tbl) ==
    [tbl EXCEPT !.rows =
        [i \in 1..Len(tbl.rows) |->
            [j \in 1..Len(tbl.rows[i]) |-> TruncTenths(tbl.rows[i][j])]]]

Unbound == <<>>

Bound(v) == <<v>>

WriteEarly(stmt) ==
    CASE stmt = "validate" -> "zone_index"
      [] stmt = "zone_index" -> "gen_clusters"
      [] stmt = "gen_clusters" -> "write_gen_clusters"
      [] stmt = "write_gen_clusters" -> "write_all_units"
      [] stmt = "write_all_units" -> "load_curves"
      [] stmt = "load_curves" -> "transmission"
      [] stmt = "transmission" -> "write_load"
      [] stmt = "write_load" -> "write_transmission"
      [] stmt = "write_transmission" -> "done"

\* the order of the statements of main()
StatementAfter(stmt) ==
    CASE stmt = "validate" -> "zone_index"
      [] stmt = "zone_index" -> "gen_clusters"
      [] stmt = "gen_clusters" -> "load_curves"
      [] stmt = "load_curves" -> "transmission"
      [] stmt = "transmission" -> "write_gen_clusters"
      [] stmt = "write_gen_clusters" -> "write_all_units"
      [] stmt = "write_all_units" -> "write_load"
      [] stmt = "write_load" -> "write_transmission"
      [] stmt = "write_transmission" -> "done"

\* an exception leaves main(): nothing catches it
Raise ==
    /\ pc' = "aborted"
    /\ failed_at' = pc
    /\ UNCHANGED <<utilVars, args_all_units, settings_file, warehouse, settings, warnings,
                   zone_num_map, gen_clusters, load, transmission, received,
                   written>>

\* lines 95-107
Validator ==
    /\ pc = "validate"
    /\ LET valid == all_valid_regions(warehouse.regions_entity_epaipm, settings)
       IN warnings' = warnings + ValidatorWarnings(good_regions(valid, settings))
    /\ pc' = StatementAfter(pc)
    /\ UNCHANGED <<utilVars, args_all_units, settings_file, warehouse, settings,
                   zone_num_map, gen_clusters, load, transmission, received,
                   written, failed_at>>

\* lines 109-115
ZoneIndexer ==
    /\ pc = "zone_index"
    /\ settings' = SortZones(settings)
    /\ zone_num_map' = Bound(ZoneNumMap(settings'.model_regions))
    /\ pc' = StatementAfter(pc)
    /\ UNCHANGED <<utilVars, args_all_units, settings_file, warehouse, warnings,
                   gen_clusters, load, transmission, received, written,
                   failed_at>>

\* lines 117-123
GeneratorClusters ==
    /\ pc = "gen_clusters"
    /\ \/ /\ received' = [received EXCEPT !.GeneratorClusters = Bound(settings)]
          /\ gen_clusters' =
                Bound(WithZone(ClusterRegions(settings), zone_num_map[1]))
          /\ pc' = StatementAfter(pc)
          /\ UNCHANGED <<utilVars, args_all_units, settings_file, warehouse, settings,
                         warnings, zone_num_map, load, transmission, written,
                         failed_at>>
       \/ Raise

\* lines 125-126
LoadCurves ==
    /\ pc = "load_curves"
    /\ \/ /\ received' = [received EXCEPT !.load_curves = Bound(settings)]
          /\ LET raw == warehouse.load_curves
             IN /\ load' = Bound([raw EXCEPT !.columns =
                                    LoadColumns(raw.columns, zone_num_map[1])])
                \* str + NaN: pandas leaves NaN or raises TypeError
                /\ \/ pc' = StatementAfter(pc) /\ failed_at' = failed_at
                   \/ /\ \E i \in 1..Len(raw.columns) :
                            ~HasKey(zone_num_map[1], raw.columns[i])
                      /\ pc' = "aborted"
                      /\ failed_at' = pc
          /\ UNCHANGED <<utilVars, args_all_units, settings_file, warehouse, settings,
                         warnings, zone_num_map, gen_clusters, transmission,
                         written>>
       \/ Raise

\* lines 128-136
Transmission ==
    /\ pc = "transmission"
    /\ \/ /\ received' = [received EXCEPT
                            !.agg_transmission_constraints = Bound(settings),
                            !.transmission_line_distance = Bound(settings)]
          /\ transmission' = Bound(TransmissionLinks(settings))
          /\ pc' = StatementAfter(pc)
          /\ UNCHANGED <<utilVars, args_all_units, settings_file, warehouse, settings,
                         warnings, zone_num_map, gen_clusters, load, written,
                         failed_at>>
       \/ Raise

\* lines 139-142
WriteGenClusters ==
    /\ pc = "write_gen_clusters"
    /\ written' = [written EXCEPT
                     !.generator_clusters = Append(@, gen_clusters[1])]
    /\ pc' = StatementAfter(pc)
    /\ UNCHANGED <<utilVars, args_all_units, settings_file, warehouse, settings, warnings,
                   zone_num_map, gen_clusters, load, transmission, received,
                   failed_at>>

\* lines 143-146
WriteAllUnits ==
    /\ pc = "write_all_units"
    /\ written' = IF args_all_units = TRUE
                  THEN [written EXCEPT
                          !.all_units = Append(@, ClusterRegions(settings))]
                  ELSE written
    /\ pc' = StatementAfter(pc)
    /\ UNCHANGED <<utilVars, args_all_units, settings_file, warehouse, settings, warnings,
                   zone_num_map, gen_clusters, load, transmission, received,
                   failed_at>>

\* line 148
WriteLoad ==
    /\ pc = "write_load"
    /\ written' = [written EXCEPT !.load_curves = Append(@, astype_int(load[1]))]
    /\ pc' = StatementAfter(pc)
    /\ UNCHANGED <<utilVars, args_all_units, settings_file, warehouse, settings, warnings,
                   zone_num_map, gen_clusters, load, transmission, received,
                   failed_at>>

\* lines 149-152
WriteTransmission ==
    /\ pc = "write_transmission"
    /\ written' = [written EXCEPT
                     !.transmission_constraints = Append(@, transmission[1])]
    /\ pc' = StatementAfter(pc)
    /\ UNCHANGED <<utilVars, args_all_units, settings_file, warehouse, settings, warnings,
                   zone_num_map, gen_clusters, load, transmission, received,
                   failed_at>>

Next ==
    \/ Validator
    \/ ZoneIndexer
    \/ GeneratorClusters
    \/ LoadCurves
    \/ Transmission
    \/ WriteGenClusters
    \/ WriteAllUnits
    \/ WriteLoad
    \/ WriteTransmission

\* ---- the inputs of a run
\* the region_id_epaipm column of regions_entity_epaipm
Registries == {<<R_a, R_b>>, <<R_b>>}

\* region_aggregations of the settings file
Aggregations ==
    { <<>>,
      << <<R_ab, <<R_a, R_b>>>> >>,
      << <<R_a, <<R_b>>>> >>,
      << <<R_ab, <<R_a>>>>, <<R_a, <<R_b>>>> >> }

\* load values in tenths of a MW: 12.7 and -12.7
LoadValues == {127, -127}

LoadTables ==
    UNION { [columns : {columns},
             rows : SeqsUpTo([1..Len(columns) -> LoadValues], MaxLoadRows)] :
            columns \in SeqsUpTo(RegionNames, MaxLoadCols) }

InitRun ==
    /\ pc = "validate"
    /\ settings = settings_file
    /\ warnings = 0
    /\ zone_num_map = Unbound
    /\ gen_clusters = Unbound
    /\ load = Unbound
    /\ transmission = Unbound
    /\ received = [GeneratorClusters |-> Unbound, load_curves |-> Unbound,
                   agg_transmission_constraints |-> Unbound,
                   transmission_line_distance |-> Unbound]
    /\ written = [generator_clusters |-> <<>>, all_units |-> <<>>,
                  load_curves |-> <<>>, transmission_constraints |-> <<>>]
    /\ failed_at = ""
    /\ call = [fn |-> "none"]
    /\ df = Unbound
    /\ ret = Unbound

\* every settings file, a warehouse whose load table has no rows and no
\* column or the column of one region
Init ==
    /\ args_all_units \in BOOLEAN
    /\ settings_file \in [model_regions : SeqsUpTo(RegionNames, MaxRegions),
                          region_aggregations : Aggregations]
    /\ warehouse \in [regions_entity_epaipm : Registries,
                      load_curves : {[columns |-> c, rows |-> <<>>] :
                                        c \in {<<>>, <<R_ab>>}}]
    /\ InitRun

Spec == Init /\ [][Next]_vars

\* the runs of Spec that write every file
InitFair == Init /\ args_all_units = TRUE

\* main() is one thread: the statement at pc runs
FairSpec == InitFair /\ [][Next]_vars /\ WF_vars(Next)

\* settings without aggregates and without repeated regions, every load table
InitLoad ==
    /\ args_all_units = TRUE
    /\ settings_file \in
        [model_regions : {s \in SeqsUpTo(RegionNames, MaxRegions) :
                            NoDuplicates(s) /\ Len(s) >= 2},
         region_aggregations : {<<>>}]
    /\ warehouse \in [regions_entity_epaipm : {<<R_a, R_b>>},
                      load_curves : LoadTables]
    /\ InitRun

SpecLoad == InitLoad /\ [][Next]_vars

\* ------------------------------------------------------------------ util
\* the (member, aggregate) pairs in the order "for k in d for v in d[k]"
RECURSIVE MemberPairs(_)
MemberPairs(d) ==
    IF d = <<>> THEN <<>>
    ELSE LET n == Len(d)
             members == d[n][2]
         IN MemberPairs(SubSeq(d, 1, n - 1)) \o
            [j \in 1..Len(members) |-> <<members[j], d[n][1]>>]

Reversed(s) == [i \in 1..Len(s) |-> s[Len(s) + 1 - i]]

FirstMemberOnly(d) ==
    DictOf(MemberPairs([i \in 1..Len(d) |->
        <<d[i][1], IF d[i][2] = <<>> THEN <<>> ELSE <<d[i][2][1]>>>>]))

FirstSeenWins(d) == DictOf(Reversed(MemberPairs(d)))

\* return {v: k for k in d for v in d[k]}
reverse_dict_of_lists(d) == DictOf(MemberPairs(d))

MapWholeColumn(frame, region_agg_map, original_col_name, new_col_name) ==
    LET original == DictGet(frame, original_col_name)
    IN DictSet(frame, new_col_name,
               [i \in 1..Len(original) |-> MapValue(region_agg_map, original[i])])

\* util.py lines 32-42; the frame is changed in place and returned
map_agg_region_names(frame, region_agg_map, original_col_name, new_col_name) ==
    LET \* df[new_col_name] = df.loc[:, original_col_name]
        copied == DictSet(frame, new_col_name, DictGet(frame, original_col_name))
        original == DictGet(copied, original_col_name)
        \* df[original_col_name].isin(region_agg_map.keys())
        isin == [i \in 1..Len(original) |-> HasKey(region_agg_map, original[i])]
        \* df.loc[isin, original_col_name].map(region_agg_map)
        mapped == [i \in 1..Len(original) |-> MapValue(region_agg_map, original[i])]
        old == DictGet(copied, new_col_name)
    IN DictSet(copied, new_col_name,
               [i \in 1..Len(original) |-> IF isin[i] THEN mapped[i] ELSE old[i]])

ReverseDictOfLists ==
    /\ call.fn = "reverse_dict_of_lists"
    /\ ret = Unbound
    /\ ret' = Bound(reverse_dict_of_lists(call.d))
    /\ UNCHANGED <<mainVars, call, df>>

MapAggRegionNames ==
    /\ call.fn = "map_agg_region_names"
    /\ ret = Unbound
    /\ df' = Bound(map_agg_region_names(df[1], call.region_agg_map,
                                        call.original_col_name,
                                        call.new_col_name))
    /\ ret' = df'
    /\ UNCHANGED <<mainVars, call>>

\* main() is not running
NoRun ==
    /\ pc = "none"
    /\ args_all_units = FALSE
    /\ settings_file = <<>>
    /\ warehouse = <<>>
    /\ settings = <<>>
    /\ warnings = 0
    /\ zone_num_map = Unbound
    /\ gen_clusters = Unbound
    /\ load = Unbound
    /\ transmission = Unbound
    /\ received = <<>>
    /\ written = <<>>
    /\ failed_at = ""

\* every dict aggregate -> list of members
DuplicateFree(S) == {s \in SeqsUpTo(S, Cardinality(S)) : NoDuplicates(s)}

Dicts ==
    UNION { {[i \in 1..Len(ks) |-> <<ks[i], ml[i]>>] :
                ml \in [1..Len(ks) -> SeqsUpTo(MemberNames, MaxMembers)]} :
            ks \in DuplicateFree(AggNames) }

InitRev ==
    /\ NoRun
    /\ call \in [fn : {"reverse_dict_of_lists"}, d : Dicts]
    /\ df = Unbound
    /\ ret = Unbound

NextRev == ReverseDictOfLists

SpecRev == InitRev /\ [][NextRev]_vars

ColLabels == {"region_id_epaipm", "model_region"}

\* frames with a region column and, or not, a column model_region already
Frames ==
    UNION { { << <<"region_id_epaipm", col>> >>,
              << <<"region_id_epaipm", col>>,
                 <<"model_region", [i \in 1..Len(col) |-> M_z]>> >> } :
            col \in SeqsUpTo(MemberNames, MaxDfRows) }

AggMaps == {reverse_dict_of_lists(d) : d \in Dicts}

InitMapAgg ==
    /\ NoRun
    /\ \E frame \in Frames :
        /\ df = Bound(frame)
        /\ call \in [fn : {"map_agg_region_names"},
                     frame : {frame},
                     region_agg_map : AggMaps,
                     original_col_name : KeySet(frame),
                     new_col_name : ColLabels]
    /\ ret = Unbound

NextMapAgg == MapAggRegionNames

SpecMapAgg == InitMapAgg /\ [][NextMapAgg]_vars

\* ---------------------------------------------------------------- claims
Builders == {"gen_clusters", "load_curves", "transmission"}

Writes == {"write_gen_clusters", "write_all_units", "write_load",
           "write_transmission"}

ValidRegion(r) ==
    \/ r \in Range(warehouse.regions_entity_epaipm)
    \/ r \in KeySet(settings_file.region_aggregations)

AllRegionsValid == \A r \in Range(settings_file.model_regions) : ValidRegion(r)

InvalidEntries ==
    {i \in 1..Len(settings_file.model_regions) :
        ~ValidRegion(settings_file.model_regions[i])}

\* the decimal strings "1" .. "9"
Numeral(k) ==
    <<<<49>>, <<50>>, <<51>>, <<52>>, <<53>>, <<54>>, <<55>>, <<56>>, <<57>>>>[k]

\* the number of names of S that are not behind r in lexicographic order
RankIn(S, r) == Cardinality({m \in S : StrLeq(m, r)})

Reorderings(s) == {t \in [1..Len(s) -> Range(s)] : Range(t) = Range(s)}

\* C1: when every entry of model_regions is a reference region or a key of
\* region_aggregations, the run logs no region-validity warning.
C1_NoWarningWhenValid == (pc # "none" /\ AllRegionsValid) => warnings = 0

C1_Witness ==
    /\ pc = "done"
    /\ AllRegionsValid
    /\ \E r \in Range(settings_file.model_regions) :
            r \notin Range(warehouse.regions_entity_epaipm)
    /\ warnings = 0

\* C2: when some entry of model_regions is invalid (one or several), exactly
\* one warning is logged, the validator hands on to the Zone Indexer, no stage
\* is skipped on the way to the writes, and the run goes on to the Output
\* Writer unless a builder raises.
C2_SoftFail ==
    /\ []((pc \notin {"none", "validate"} /\ ~AllRegionsValid) => warnings = 1)
    /\ [][pc = "validate" => pc' = "zone_index"]_vars
    /\ []((pc \in Writes /\ ~AllRegionsValid) =>
            /\ zone_num_map # Unbound
            /\ gen_clusters # Unbound
            /\ load # Unbound
            /\ transmission # Unbound)
    /\ ((pc = "validate" /\ ~AllRegionsValid) ~>
            (pc \in Writes \/ (pc = "aborted" /\ failed_at \in Builders)))

C2_Witness ==
    /\ pc = "write_gen_clusters"
    /\ Cardinality(InvalidEntries) >= 2
    /\ warnings = 1
    /\ written.generator_clusters = <<>>

\* C3: for n unique model region names in any order the zone map has exactly
\* those names as keys, maps the k-th smallest name to the decimal string of
\* k, uses exactly "1".."n", and is the same for every permutation of the list.
C3_ZoneMap ==
    (zone_num_map # Unbound /\ NoDuplicates(settings_file.model_regions)) =>
        LET zm == zone_num_map[1]
            names == Range(settings_file.model_regions)
            n == Len(settings_file.model_regions)
        IN /\ KeySet(zm) = names
           /\ Len(zm) = n
           /\ \A r \in names : DictGet(zm, r) = Numeral(RankIn(names, r))
           /\ {DictGet(zm, r) : r \in names} = {Numeral(k) : k \in 1..n}
           /\ \A t \in Reorderings(settings_file.model_regions) :
                ZoneNumMap(SortZones([model_regions |-> t]).model_regions) = zm

C3_Witness ==
    /\ zone_num_map # Unbound
    /\ settings_file.model_regions = <<R_b, R_ab, R_a>>
    /\ zone_num_map[1] = << <<R_a, <<49>>>>, <<R_ab, <<50>>>>, <<R_b, <<51>>>> >>

\* t is the float v (in tenths) with its fraction dropped, towards zero
TruncatedTowardZero(v, t) ==
    IF v >= 0 THEN 10 * t <= v /\ v < 10 * t + 10
    ELSE 10 * t >= v /\ v > 10 * t - 10

\* C6: for a load table whose raw columns are model region names, the written
\* table has for each raw column r, in the same place, the column "Load_MW_z"
\* followed by the zone index of r, and every value is the original value
\* truncated toward zero (12.7 becomes 12).
C6_LoadTable ==
    (/\ written # <<>>
     /\ written.load_curves # <<>>
     /\ Range(warehouse.load_curves.columns) \subseteq
            Range(settings_file.model_regions)) =>
        LET raw == warehouse.load_curves
            out == written.load_curves[1]
            names == Range(settings_file.model_regions)
        IN /\ Len(out.columns) = Len(raw.columns)
           /\ \A i \in 1..Len(raw.columns) :
                /\ out.columns[i] = Load_MW_z \o DictGet(zone_num_map[1], raw.columns[i])
                /\ out.columns[i] = Load_MW_z \o Numeral(RankIn(names, raw.columns[i]))
           /\ Len(out.rows) = Len(raw.rows)
           /\ \A i \in 1..Len(raw.rows) :
                /\ Len(out.rows[i]) = Len(raw.rows[i])
                /\ \A j \in 1..Len(raw.rows[i]) :
                    /\ TruncatedTowardZero(raw.rows[i][j], out.rows[i][j])
                    /\ raw.rows[i][j] = 127 => out.rows[i][j] = 12

C6_Witness ==
    /\ written.load_curves # <<>>
    /\ settings_file.model_regions = <<R_b, R_a>>
    /\ warehouse.load_curves = [columns |-> <<R_b, R_a>>, rows |-> <<<<127, -127>>>>]
    /\ written.load_curves[1] =
            [columns |-> <<Load_MW_z \o <<50>>, Load_MW_z \o <<49>>>>,
             rows |-> <<<<12, -12>>>>]

IsSorted(s) == \A i, j \in 1..Len(s) : i < j => StrLeq(s[i], s[j])

Count(s, x) == Cardinality({i \in 1..Len(s) : s[i] = x})

SameEntries(s, t) ==
    /\ Len(s) = Len(t)
    /\ \A x \in Range(s) \cup Range(t) : Count(s, x) = Count(t, x)

BuilderNames == {"GeneratorClusters", "load_curves",
                 "agg_transmission_constraints", "transmission_line_distance"}

\* C7 as claimed: after load_settings returns no step changes the value of
\* any settings key, and every builder receives the settings as loaded.
C7_SettingsNeverChange ==
    pc # "none" =>
        /\ settings = settings_file
        /\ \A f \in BuilderNames :
            received[f] # Unbound => received[f][1] = settings_file

\* C7 as amended: until the Zone Indexer runs the settings are as loaded; the
\* Zone Indexer replaces model_regions by its sorted list (the same entries)
\* and nothing else changes any key; region_aggregations always is as
\* loaded; every builder receives the settings with the sorted model_regions.
C7_OnlyModelRegionsSorted ==
    pc # "none" =>
        /\ settings.region_aggregations = settings_file.region_aggregations
        /\ DOMAIN settings = DOMAIN settings_file
        /\ zone_num_map = Unbound => settings = settings_file
        /\ zone_num_map # Unbound =>
            /\ IsSorted(settings.model_regions)
            /\ SameEntries(settings.model_regions, settings_file.model_regions)
        /\ \A f \in BuilderNames :
            received[f] # Unbound =>
                /\ received[f][1] = settings
                /\ IsSorted(received[f][1].model_regions)

C7_Witness ==
    /\ pc = "done"
    /\ settings_file.model_regions = <<R_b, R_a>>
    /\ settings.model_regions = <<R_a, R_b>>
    /\ settings_file.region_aggregations # <<>>
    /\ \A f \in BuilderNames : received[f] = Bound(settings)

\* C8 as claimed: in a run that is past the Region Validator no key of
\* region_aggregations is a reference region of the warehouse.
C8_AggregateKeysNotReference ==
    pc \notin {"none", "validate"} =>
        \A k \in KeySet(settings.region_aggregations) :
            k \notin Range(warehouse.regions_entity_epaipm)

\* the stage a statement of main() belongs to
StageOf(stmt) == IF stmt \in Writes THEN "output_writer" ELSE stmt

StageOrder == <<"validate", "zone_index", "gen_clusters", "load_curves",
                "transmission", "output_writer", "done">>

StageIndex(stmt) == CHOOSE i \in 1..Len(StageOrder) : StageOrder[i] = StageOf(stmt)

NothingWritten == \A f \in DOMAIN written : written[f] = <<>>

\* C10: the stages run in the order validator, zone indexer, generator
\* clusterer, load curve builder, transmission builder, output writer, each
\* complete before the next starts; no CSV is written before the three
\* builders have completed, a run that a builder aborts has written no CSV,
\* and every CSV is written at most once.
C10_StageOrder ==
    /\ [][(pc # "none" /\ pc' # pc) =>
            \/ pc' = "aborted"
            \/ StageIndex(pc') = StageIndex(pc) + 1
            \/ StageOf(pc') = "output_writer" /\ StageOf(pc) = "output_writer"]_vars
    /\ [](pc \in {"load_curves", "transmission"} \cup Writes =>
            gen_clusters # Unbound)
    /\ [](pc \in {"transmission"} \cup Writes => load # Unbound)
    /\ [](pc \in Writes => transmission # Unbound)
    /\ [](pc \in {"validate", "zone_index"} \cup Builders => NothingWritten)
    /\ []((pc # "none" /\ ~NothingWritten) =>
            /\ gen_clusters # Unbound
            /\ load # Unbound
            /\ transmission # Unbound
            /\ failed_at \notin Builders)
    /\ []((pc = "aborted" /\ failed_at \in Builders) => NothingWritten)
    /\ [](pc # "none" => \A f \in DOMAIN written : Len(written[f]) <= 1)

C10_Witness ==
    /\ pc = "done"
    /\ \A f \in DOMAIN written : Len(written[f]) = 1

AllMembers(d) == UNION {Range(d[i][2]) : i \in 1..Len(d)}

\* no member is listed under more than one aggregate
DisjointMembers(d) ==
    \A i, j \in 1..Len(d) : i # j => Range(d[i][2]) \cap Range(d[j][2]) = {}

\* the place in d of the last aggregate that lists v
LastListing(d, v) ==
    CHOOSE i \in 1..Len(d) :
        /\ v \in Range(d[i][2])
        /\ \A j \in (i + 1)..Len(d) : v \notin Range(d[j][2])

\* C4: when no member appears under more than one aggregate, the result's
\* keys are exactly the members of all lists, every member of d[k] is mapped
\* to k, and an aggregate with an empty list contributes no entry.
C4_ReverseDisjoint ==
    (call.fn = "reverse_dict_of_lists" /\ ret # Unbound /\ DisjointMembers(call.d)) =>
        LET result == ret[1]
        IN /\ KeySet(result) = AllMembers(call.d)
           /\ NoDuplicates(Keys(result))
           /\ \A i \in 1..Len(call.d) :
                \A v \in Range(call.d[i][2]) : DictGet(result, v) = call.d[i][1]
           /\ \A i \in 1..Len(call.d) :
                call.d[i][2] = <<>> =>
                    \A n \in 1..Len(result) : result[n][2] # call.d[i][1]

C4_Witness ==
    /\ call.fn = "reverse_dict_of_lists"
    /\ call.d = << <<A_X, <<M_p, M_q>>>>, <<A_Y, <<>>>> >>
    /\ ret = Bound(<< <<M_p, A_X>>, <<M_q, A_X>> >>)

\* C9: a member listed under two or more aggregates raises nothing and is
\* mapped to the aggregate that comes last in the dict's iteration order;
\* every other member is mapped as in the disjoint case.
C9_LastSeenWins ==
    (call.fn = "reverse_dict_of_lists" /\ ret # Unbound) =>
        LET result == ret[1]
        IN /\ KeySet(result) = AllMembers(call.d)
           /\ \A v \in AllMembers(call.d) :
                DictGet(result, v) = call.d[LastListing(call.d, v)][1]

C9_Witness ==
    /\ call.fn = "reverse_dict_of_lists"
    /\ call.d = << <<A_X, <<M_p, M_q>>>>, <<A_Y, <<M_q, M_z>>>> >>
    /\ ret = Bound(<< <<M_p, A_X>>, <<M_q, A_Y>>, <<M_z, A_Y>> >>)

\* what the claim gives row i of the new column
ExpectedNew(region_agg_map, v) ==
    IF HasKey(region_agg_map, v) THEN DictGet(region_agg_map, v) ELSE v

NewColumnAsClaimed ==
    LET before == DictGet(call.frame, call.original_col_name)
        after == DictGet(ret[1], call.new_col_name)
    IN /\ HasKey(ret[1], call.new_col_name)
       /\ Len(after) = Len(before)
       /\ \A i \in 1..Len(before) :
            after[i] = ExpectedNew(call.region_agg_map, before[i])
       /\ \A c \in KeySet(ret[1]) : Len(DictGet(ret[1], c)) = Len(before)

OriginalColumnUnchanged ==
    DictGet(ret[1], call.original_col_name) =
        DictGet(call.frame, call.original_col_name)

\* C5 as claimed: after the call each row's new-column value is the aggregate
\* of its original-column value when the map has it and the original value
\* otherwise; rows keep their number and order, and the values of the
\* original column are unchanged.
C5_MapAggAsClaimed ==
    (call.fn = "map_agg_region_names" /\ ret # Unbound) =>
        NewColumnAsClaimed /\ OriginalColumnUnchanged

\* C5 as amended: the same, with the original column unchanged when
\* new_col_name is another label than original_col_name; when the two are
\* the same label that one column holds the new values.
C5_MapAggDistinctLabels ==
    (call.fn = "map_agg_region_names" /\ ret # Unbound) =>
        /\ NewColumnAsClaimed
        /\ call.new_col_name # call.original_col_name => OriginalColumnUnchanged
        /\ ret = df

C5_Witness ==
    /\ call.fn = "map_agg_region_names"
    /\ call.frame = << <<"region_id_epaipm", <<M_p, M_z>>>> >>
    /\ call.region_agg_map = << <<M_p, A_X>>, <<M_q, A_X>> >>
    /\ call.original_col_name = "region_id_epaipm"
    /\ call.new_col_name = "model_region"
    /\ ret = Bound(<< <<"region_id_epaipm", <<M_p, M_z>>>>,
                      <<"model_region", <<A_X, M_z>>>> >>)

====
